---- MODULE Spec2Model ----
(***************************************************************************)
(* Batch state machine of the boleto processor                             *)
(* (src/final_working_boleto_processor.py): ProcessedRecordTracker,        *)
(* ResumeManager and FinalWorkingProcessor.run_automation/process_record.  *)
(* Strings are sequences of one-character strings; a Python dict with      *)
(* optional keys is a record whose fields are sequences of length 0 or 1;  *)
(* a file is [kind, data] with kind "absent", "partial" or "json".         *)
(***************************************************************************)
EXTENDS Integers, Sequences, FiniteSets, TLC

(* ------------------------------ bounds --------------------------------- *)
MaxRows == 2        \* rows of one input sheet
MaxLinks == 2       \* PGTO PARC links on one page
MaxStartFrom == 2   \* largest --start-from
Threshold == 2      \* processing.login_failure_checkpoint of config.yaml

(* ------------------------------ strings -------------------------------- *)
G10 == <<"1", "0">>
C20 == <<"2", "0">>
C21 == <<"2", "1">>
Blank == <<>>

\* rows as load_records hands them over: grupo and cota already sanitized
RowPool ==
  { [grupo |-> G10, cota |-> C20],
    [grupo |-> G10, cota |-> C21],
    [grupo |-> G10, cota |-> Blank] }

RECURSIVE LStrip(_)
LStrip(s) == IF s # <<>> /\ Head(s) = " " THEN LStrip(Tail(s)) ELSE s

RECURSIVE RStrip(_)
RStrip(s) ==
  IF s # <<>> /\ s[Len(s)] = " " THEN RStrip(SubSeq(s, 1, Len(s) - 1)) ELSE s

\* str.strip()
Strip(s) == RStrip(LStrip(s))

\* Python truthiness of a str
Truthy(s) == s # <<>>

(* ------------------------------- files --------------------------------- *)
EmptyRecords == {}
EmptyState == [pending |-> <<>>, last_processed |-> <<>>]

ProcessedPath == "processed_records.json"
ResumePath == "resume_state.json"
Paths == {ProcessedPath, "processed_records.json.tmp",
          ResumePath, "resume_state.json.tmp"}

\* the content of a file that holds nothing yet
EmptyOf(path) ==
  IF path \in {ProcessedPath, "processed_records.json.tmp"}
  THEN EmptyRecords ELSE EmptyState

Absent(path) == [kind |-> "absent", data |-> EmptyOf(path)]
Partial(path) == [kind |-> "partial", data |-> EmptyOf(path)]
Json(d) == [kind |-> "json", data |-> d]

(* ---------------------- the three steps of a save ---------------------- *)
\* a save that writes the target file in place
tmp_path_in_place(path) == path

\* lines 76 and 197: self.path.with_suffix(self.path.suffix + '.tmp')
tmp_path(path) ==
  IF path = ProcessedPath THEN "processed_records.json.tmp"
  ELSE "resume_state.json.tmp"

\* open(tmp_path, 'w'): the temporary file exists, its content is not whole
opened(fs, path) == [fs EXCEPT ![tmp_path(path)] = Partial(path)]

\* json.dump(...) and the close of the handle: the temporary file is whole
dumped(fs, path, content) == [fs EXCEPT ![tmp_path(path)] = Json(content)]

\* a save that never renames the temporary file
replaced_never(fs, path) == fs

\* tmp_path.replace(self.path): one rename
replaced(fs, path) ==
  LET tmp == tmp_path(path)
  IN IF tmp = path THEN fs
     ELSE [fs EXCEPT ![path] = fs[tmp], ![tmp] = Absent(tmp)]

(* ----------------------- ProcessedRecordTracker ------------------------ *)
ProcessedRecordTracker_make_key(grupo, cota) ==
  Strip(grupo) \o <<"|">> \o Strip(cota)

\* a _load that takes whatever the file holds
ProcessedRecordTracker_load_unchecked(file) == file.data

\* self.records after _load: the file's dict, or {} when the file is
\* missing or json.load raises
ProcessedRecordTracker_load(file) ==
  IF file.kind = "json" THEN file.data ELSE EmptyRecords

Keys(recs) == {e.key : e \in recs}

ProcessedRecordTracker_is_processed(recs, grupo, cota) ==
  IF ~Truthy(grupo) \/ ~Truthy(cota) THEN FALSE
  ELSE ProcessedRecordTracker_make_key(grupo, cota) \in Keys(recs)

\* the keys of metadata that lines 121-132 copy into the record: the
\* timestamp and downloaded_files as they are, cpf_cnpj and drive_file_ids
\* when they are not empty; any other key of metadata is left behind
CopiedKeys(metadata) ==
  {f \in DOMAIN metadata :
     \/ f \in {"timestamp", "downloaded_files"}
     \/ f \in {"cpf_cnpj", "drive_file_ids"} /\ metadata[f] # <<>>}

\* lines 120-132: the record of a key
ProcessedRecordTracker_record(key, grupo, cota, metadata) ==
  [f \in {"key", "grupo", "cota"} \cup CopiedKeys(metadata) |->
     IF f = "key" THEN key
     ELSE IF f = "grupo" THEN grupo
     ELSE IF f = "cota" THEN cota
     ELSE metadata[f]]

\* a mark_processed that forgets every other key
ProcessedRecordTracker_mark_processed_alone(recs, grupo, cota, metadata) ==
  IF ~Truthy(grupo) \/ ~Truthy(cota) THEN recs
  ELSE {ProcessedRecordTracker_record(
          ProcessedRecordTracker_make_key(grupo, cota), grupo, cota, metadata)}

\* the dict after mark_processed (before _save)
ProcessedRecordTracker_mark_processed(recs, grupo, cota, metadata) ==
  IF ~Truthy(grupo) \/ ~Truthy(cota) THEN recs
  ELSE LET key == ProcessedRecordTracker_make_key(grupo, cota)
           record == ProcessedRecordTracker_record(key, grupo, cota, metadata)
       IN {e \in recs : e.key # key} \cup {record}

\* a comparison that also purges the entry on the edge of the window
expired_on_edge(record_datetime, threshold) == record_datetime <= threshold

\* line 97: record_datetime < threshold
expired(record_datetime, threshold) == record_datetime < threshold

\* processed_retention_days is an optional number; line 84 tests its truth
TruthyDays(retention_days) == retention_days # <<>> /\ retention_days[1] # 0

\* _purge_expired: the records left and the flag it returns.  A timestamp is
\* [kind, at]: missing (line 92), invalid (fromisoformat raises ValueError,
\* line 96) or an ISO date of day `at`
ProcessedRecordTracker_purge_expired(recs, retention_days, now) ==
  IF ~TruthyDays(retention_days) THEN [records |-> recs, purged |-> FALSE]
  ELSE LET threshold == now - retention_days[1]
           gone == {e \in recs : /\ e.timestamp.kind = "iso"
                                 /\ expired(e.timestamp.at, threshold)}
       IN [records |-> recs \ gone, purged |-> gone # {}]

(* ---------------------------- ResumeManager ---------------------------- *)
ResumeManager_load_state(enabled, file) ==
  IF ~enabled \/ file.kind = "absent" THEN EmptyState
  ELSE IF file.kind = "json" THEN file.data
  ELSE EmptyState

KeyOf(grupo, cota) == [grupo |-> grupo, cota |-> cota]

\* mark_completed that leaves the pending entry in place
ResumeManager_mark_completed_keeps_pending(state, grupo, cota) ==
  [state EXCEPT !.last_processed = <<KeyOf(grupo, cota)>>]

\* the state dict mark_completed hands to _write_state
ResumeManager_mark_completed(state, grupo, cota) ==
  LET pending == state.pending
      matches == /\ pending # <<>>
                 /\ pending[1].grupo = grupo
                 /\ pending[1].cota = cota
  IN [pending |-> IF matches THEN <<>> ELSE pending,
      last_processed |-> <<KeyOf(grupo, cota)>>]

\* the state dict mark_pending hands to _write_state
ResumeManager_mark_pending(state, grupo, cota) ==
  [state EXCEPT !.pending = <<KeyOf(grupo, cota)>>]

\* the files after clear(): the state file is unlinked when it exists
ResumeManager_clear(enabled, fs) ==
  IF ~enabled THEN fs ELSE [fs EXCEPT ![ResumePath] = Absent(ResumePath)]

\* the files after a whole _save (lines 73-81)
ProcessedRecordTracker_save(fs, recs) ==
  replaced(dumped(opened(fs, ProcessedPath), ProcessedPath, recs),
           ProcessedPath)

\* the files after a whole _write_state (lines 192-202)
\* __init__ lines 43-50: _load, _purge_expired, and _save when it purged
ProcessedRecordTracker_init(fs, retention_days, now) ==
  LET loaded == ProcessedRecordTracker_load(fs[ProcessedPath])
      left == ProcessedRecordTracker_purge_expired(loaded, retention_days,
                                                   now)
  IN [records |-> left.records,
      files |-> IF left.purged
                THEN ProcessedRecordTracker_save(fs, left.records)
                ELSE fs]

ResumeManager_write_state(enabled, fs, st) ==
  IF ~enabled THEN fs
  ELSE replaced(dumped(opened(fs, ResumePath), ResumePath, st), ResumePath)

(* ------------------------- FinalWorkingProcessor ----------------------- *)
Min(a, b) == IF a < b THEN a ELSE b
Max(a, b) == IF a > b THEN a ELSE b
SetMin(S) == CHOOSE x \in S : \A y \in S : x <= y

\* records[n:] of a Python list (n counted from 0)
Drop(seq, n) == SubSeq(seq, n + 1, Len(seq))

\* the sheets load_records can read, each row tagged with its row number
Sheets == UNION { [1..n -> RowPool] : n \in 0..MaxRows }

load_records(sheet, start_from, max_records) ==
  LET records == [n \in 1..Len(sheet) |->
                    [grupo |-> sheet[n].grupo, cota |-> sheet[n].cota,
                     row |-> n]]
      start_index == Max(start_from - 1, 0)
      sliced == IF start_index # 0 THEN Drop(records, start_index)
                ELSE records
  IN IF max_records # 0
     THEN SubSeq(sliced, 1, Min(max_records, Len(sliced)))
     ELSE sliced

\* a filter that keeps every record
filtered_records_keeps_all(records, tracker, skip_processed_records) == records

\* run_automation lines 1473-1493: drop the records the tracker knows
filtered_records(records, tracker, skip_processed_records) ==
  IF skip_processed_records
  THEN SelectSeq(records,
         LAMBDA r : ~( /\ Truthy(Strip(r.grupo))
                       /\ Truthy(Strip(r.cota))
                       /\ ProcessedRecordTracker_is_processed(
                            tracker, Strip(r.grupo), Strip(r.cota)) ))
  ELSE records

NoIndex == -1

\* 0-based index of the first record with the key, NoIndex for None
find_record_index(records, key) ==
  LET target_grupo == Strip(key.grupo)
      target_cota == Strip(key.cota)
      hits == { n \in 1..Len(records) :
                  /\ Strip(records[n].grupo) = target_grupo
                  /\ Strip(records[n].cota) = target_cota }
  IN IF ~Truthy(target_grupo) \/ ~Truthy(target_cota) THEN NoIndex
     ELSE IF hits = {} THEN NoIndex
     ELSE SetMin(hits) - 1

\* resume_records resuming after the pending record instead of at it
resume_records_after_pending(records, resume_state) ==
  LET pending == resume_state.pending
      last == resume_state.last_processed
      key == IF pending # <<>> THEN pending ELSE last
  IN IF key = <<>> THEN [records |-> records, clear |-> FALSE]
     ELSE LET idx == find_record_index(records, key[1])
          IN IF idx # NoIndex
             THEN [records |-> Drop(records, idx + 1), clear |-> FALSE]
             ELSE [records |-> records, clear |-> pending # <<>>]

\* a missing pending record that falls back on last_processed
pending_not_found_after_last(queue, last) ==
  LET idx == IF last # <<>> THEN find_record_index(queue, last[1])
             ELSE NoIndex
  IN IF idx # NoIndex THEN [records |-> Drop(queue, idx + 1), clear |-> TRUE]
     ELSE [records |-> queue, clear |-> TRUE]

\* lines 1509-1511: the pending record is not in the queue, the checkpoint
\* is cleared and the queue stays whole
pending_not_found(queue, last) == [records |-> queue, clear |-> TRUE]

\* run_automation lines 1495-1524: [records, clear] after the resume logic
resume_records(records, resume_state) ==
  LET pending == resume_state.pending
      last == resume_state.last_processed
  IN IF pending # <<>>
     THEN LET idx == find_record_index(records, pending[1])
          IN IF idx # NoIndex
             THEN [records |-> Drop(records, idx), clear |-> FALSE]
             ELSE pending_not_found(records, last)
     ELSE IF last # <<>>
     THEN LET idx == find_record_index(records, last[1])
          IN IF idx # NoIndex
             THEN [records |-> Drop(records, idx + 1), clear |-> FALSE]
             ELSE [records |-> records, clear |-> FALSE]
     ELSE [records |-> records, clear |-> FALSE]

Now == 3            \* datetime.now() of a tracker's construction, in days
MaxRetention == 2   \* largest processing.processed_retention_days

MaxPage == 3        \* characters of a page's text
MaxValor == 3       \* characters of the total value of a document

MinPdfBytes == 10000
Sizes == {MinPdfBytes - 1, MinPdfBytes, MinPdfBytes + 1}

\* what one PGTO PARC link can yield: no onclick attribute, an onclick that
\* does not parse, a POST that returns no bytes, or a body of some size
LinkOutcomes ==
  [kind : {"no_onclick", "parse_failed", "no_data"}, size : {0}]
  \cup [kind : {"data"}, size : Sizes]

\* download_boletos_enhanced lines 862-868 of
\* src/enhanced_production_processor.py: the first link for CONTEMPLADO,
\* every link otherwise
EnhancedProductionProcessor_links_to_process(pgto_parc_links, contemplado_status) ==
  IF contemplado_status = "CONTEMPLADO"
  THEN SubSeq(pgto_parc_links, 1, Min(1, Len(pgto_parc_links)))
  ELSE pgto_parc_links

\* lines 1160-1167: both branches keep the first link only
links_to_process(pgto_parc_links, contemplado_status) ==
  IF contemplado_status = "CONTEMPLADO"
  THEN SubSeq(pgto_parc_links, 1, Min(1, Len(pgto_parc_links)))
  ELSE SubSeq(pgto_parc_links, 1, Min(1, Len(pgto_parc_links)))

\* a validation that accepts every saved file
file_accepted_any_size(o) == o.kind = "data"

\* lines 1207-1242: the saved file is kept when it is larger than 10000 bytes
file_accepted(o) == o.kind = "data" /\ o.size > MinPdfBytes

pdf_path(grupo, cota, index) ==
  [grupo |-> grupo, cota |-> cota, index |-> index]

\* downloaded_files after the loop of lines 1170-1248 over the links
RECURSIVE downloaded_files_of(_, _, _, _)
downloaded_files_of(links, grupo, cota, n) ==
  IF n > Len(links) THEN <<>>
  ELSE (IF file_accepted(links[n])
        THEN <<pdf_path(grupo, cota, n - 1)>> ELSE <<>>)
       \o downloaded_files_of(links, grupo, cota, n + 1)

\* lines 1208-1211: the bytes of every link that returned data are written
\* to its path, whatever their number
RECURSIVE saved_of(_, _, _, _)
saved_of(links, grupo, cota, n) ==
  IF n > Len(links) THEN <<>>
  ELSE (IF links[n].kind = "data"
        THEN <<[path |-> pdf_path(grupo, cota, n - 1),
                size |-> links[n].size]>>
        ELSE <<>>)
       \o saved_of(links, grupo, cota, n + 1)

KeyPool == {KeyOf(Strip(r.grupo), Strip(r.cota)) : r \in RowPool}
NoEffects ==
  [k \in KeyPool |-> [upload |-> FALSE, notify |-> FALSE, log |-> FALSE]]

\* lines 1219-1240: upload_pdf, send_notification and the audit-log row are
\* called once for every accepted file; here every sink call succeeds.
\* effects[key] tells which sinks have received a document of the key
RECURSIVE effects_of(_, _, _, _)
effects_of(eff, links, key, n) ==
  IF n > Len(links) THEN eff
  ELSE LET next == IF file_accepted(links[n])
                   THEN [eff EXCEPT ![key] =
                           [upload |-> TRUE, notify |-> TRUE, log |-> TRUE]]
                   ELSE eff
       IN effects_of(next, links, key, n + 1)

NoResult ==
  [grupo |-> <<>>, cota |-> <<>>, row |-> 0, status |-> "none",
   downloaded_files |-> <<>>]

\* config.yaml (processing section) and the command line of one process
Configs == [skip_processed_records : BOOLEAN, resume_enabled : BOOLEAN]

\* the command line of one process: --ignore-resume and --start-from
Arguments ==
  { a \in [ignore_resume : BOOLEAN, start_from : {0, MaxStartFrom}] :
      a.ignore_resume => a.start_from = 0 }

NoStart == [queue |-> <<>>, resume_used |-> FALSE]

VARIABLES
  files,            \* the two state files and their .tmp siblings
  pc,               \* position of the process in run_automation
  config,           \* config.yaml: skip_processed_records, resume_enabled
  tracker,          \* ProcessedRecordTracker.records
  records,          \* run_automation's records after filter and resume
  i,                \* 1-based position in records
  result,           \* process_record's result dict
  context_open,     \* the record's browser context exists
  consecutive_login_failures,
  state,            \* the dict ResumeManager is writing
  start,            \* what the run saw when it started
  effects,          \* the sinks that received a document, per record key
  saved,            \* the files the record's download loop wrote
  login_failed_streak, \* trailing login_failed entries of all_results
  call              \* a function called on its own: arguments and value

disk == <<files>>
processed_file == files[ProcessedPath]
resume_file == files[ResumePath]
memory == <<tracker, records, i, result, context_open,
            consecutive_login_failures, state, saved, login_failed_streak>>
vars == <<disk, pc, config, memory, start, effects, call>>

\* self.resume_manager and self.resume_enabled
resume_enabled == config.resume_enabled

\* no function has been called on its own
NoCall == [fn |-> "none"]

\* nothing has run yet: no state file exists, no process is running
InitState ==
  /\ files = [p \in Paths |-> Absent(p)]
  /\ pc = "idle"
  /\ config \in Configs
  /\ tracker = EmptyRecords
  /\ records = <<>>
  /\ i = 0
  /\ result = NoResult
  /\ context_open = FALSE
  /\ consecutive_login_failures = 0
  /\ state = EmptyState
  /\ start = NoStart
  /\ effects = NoEffects
  /\ saved = <<>>
  /\ login_failed_streak = 0

Init ==
  /\ InitState
  /\ call = NoCall

\* the memory of a process that is not running
Exited ==
  /\ tracker' = EmptyRecords
  /\ records' = <<>>
  /\ i' = 0
  /\ result' = NoResult
  /\ context_open' = FALSE
  /\ consecutive_login_failures' = 0
  /\ state' = EmptyState
  /\ start' = NoStart
  /\ saved' = <<>>
  /\ login_failed_streak' = 0

\* main() constructs the processor (the tracker loads its file) and
\* run_automation runs lines 1467-1559 up to the first record
RunStartOn(sheet, a) ==
  /\ pc = "idle"
  /\   LET loaded == ProcessedRecordTracker_load(processed_file)
           all == load_records(sheet, a.start_from, 0)
           queue == filtered_records(all, loaded,
                                     config.skip_processed_records)
           use == /\ resume_enabled /\ ~a.ignore_resume
                  /\ a.start_from = 0 /\ all # <<>>
           resume_state == IF use
                           THEN ResumeManager_load_state(TRUE, resume_file)
                           ELSE EmptyState
           resumed == IF use THEN resume_records(queue, resume_state)
                      ELSE [records |-> queue, clear |-> FALSE]
           none == all = <<>> \/ resumed.records = <<>>
       IN /\ files' = IF resumed.clear
                      THEN ResumeManager_clear(TRUE, files)
                      ELSE files
          /\ IF none
             THEN /\ pc' = "idle" /\ i' = 0
                  /\ tracker' = EmptyRecords
                  /\ records' = <<>>
                  /\ start' = NoStart
             ELSE /\ pc' = "new_context" /\ i' = 1
                  /\ tracker' = loaded
                  /\ records' = resumed.records
                  /\ start' = [queue |-> queue, resume_used |-> use]
  /\ result' = NoResult
  /\ context_open' = FALSE
  /\ consecutive_login_failures' = 0
  /\ state' = EmptyState
  /\ saved' = <<>>
  /\ login_failed_streak' = 0
  /\ UNCHANGED <<config, effects, call>>

\* a process is started on some input file with some command line
RunStart == \E sheet \in Sheets, a \in Arguments : RunStartOn(sheet, a)

\* process_record lines 1346-1368: open the record's context, build result
\* browser.new_context (line 1346) and context.new_page (line 1351) are
\* outside the try of line 1370: what they raise leaves process_record
NewContext ==
  /\ pc = "new_context"
  /\ \E outcome \in {"ok", "new_context_raises", "new_page_raises"} :
       IF outcome = "ok"
       THEN /\ LET record == records[i]
               IN result' = [grupo |-> Strip(record.grupo),
                             cota |-> Strip(record.cota),
                             row |-> record.row, status |-> "failed",
                             downloaded_files |-> <<>>]
            /\ context_open' = TRUE
            /\ pc' = "login"
       ELSE /\ UNCHANGED result
            /\ context_open' = (outcome = "new_page_raises")
            /\ pc' = "raised"
  /\ UNCHANGED <<disk, config, tracker, records, i,
                 consecutive_login_failures, state, start, effects,
                 saved, login_failed_streak, call>>

\* lines 1373-1376: login() returns False on any failure
Login ==
  /\ pc = "login"
  /\ \E ok \in BOOLEAN :
       IF ok
       THEN /\ pc' = "search" /\ UNCHANGED result
       ELSE /\ pc' = "close"
            /\ result' = [result EXCEPT !.status = "login_failed"]
  /\ UNCHANGED <<disk, config, tracker, records, i, context_open,
                 consecutive_login_failures, state, start, effects,
                 saved, login_failed_streak, call>>

\* lines 1378-1394 and the except clause of lines 1410-1413
Search ==
  /\ pc = "search"
  /\ \E outcome \in {"found", "search_failed", "error"} :
       IF outcome = "found"
       THEN /\ pc' = "download" /\ UNCHANGED result
       ELSE /\ pc' = "close"
            /\ result' = [result EXCEPT !.status = outcome]
  /\ UNCHANGED <<disk, config, tracker, records, i, context_open,
                 consecutive_login_failures, state, start, effects,
                 saved, login_failed_streak, call>>

\* lines 1396-1408 with download_boletos_final_working (lines 1057-1254)
Download ==
  /\ pc = "download"
  /\ \E n \in 0..MaxLinks, contemplado_status \in {"CONTEMPLADO", "UNKNOWN"} :
       \E todo \in [1..Len(links_to_process([k \in 1..n |-> k],
                                            contemplado_status))
                      -> LinkOutcomes] :
         LET downloaded_files ==
               downloaded_files_of(todo, result.grupo, result.cota, 1)
         IN /\ result' = [result EXCEPT
                            !.downloaded_files = downloaded_files,
                            !.status = IF downloaded_files # <<>>
                                       THEN "success"
                                       ELSE "no_downloads"]
            /\ effects' = effects_of(effects, todo,
                                     KeyOf(result.grupo, result.cota), 1)
            /\ saved' = saved_of(todo, result.grupo, result.cota, 1)
  /\ pc' = "close"
  /\ UNCHANGED <<disk, config, tracker, records, i, context_open,
                 consecutive_login_failures, state, start,
                 login_failed_streak, call>>

\* the finally clause of lines 1415-1418: context.close(), then the result
\* goes back to the loop, which appends it to all_results (line 1570); what
\* context.close() raises leaves process_record
CloseContext ==
  /\ pc = "close"
  /\ \E closed \in BOOLEAN :
       IF closed
       THEN /\ context_open' = FALSE
            /\ pc' = "mark_processed"
            /\ login_failed_streak' =
                 IF result.status = "login_failed"
                 THEN login_failed_streak + 1 ELSE 0
       ELSE /\ pc' = "raised"
            /\ UNCHANGED <<context_open, login_failed_streak>>
  /\ saved' = <<>>
  /\ UNCHANGED <<disk, config, tracker, records, i, result,
                 consecutive_login_failures, state, start, effects, call>>

\* lines 1663-1665: an exception that left process_record is logged and
\* raised again; leaving the async with of line 1539 stops the browser
Propagate ==
  /\ pc = "raised"
  /\ pc' = "idle"
  /\ Exited
  /\ UNCHANGED <<disk, config, effects, call>>

\* metadata of lines 1579-1584
metadata_of(res) ==
  [downloaded_files |-> IF res.status = "success" THEN res.downloaded_files
                        ELSE <<>>,
   status |-> res.status]

\* line 1577: the statuses that are remembered as processed
marks_processed(status) == status \in {"success", "no_downloads"}

\* lines 1576-1591: mark_processed with its _save
MarkProcessed ==
  /\ pc = "mark_processed"
  /\ IF marks_processed(result.status)
     THEN LET after == ProcessedRecordTracker_mark_processed(
                         tracker, result.grupo, result.cota,
                         metadata_of(result))
          IN /\ tracker' = after
             /\ files' =
                  IF Truthy(result.grupo) /\ Truthy(result.cota)
                  THEN ProcessedRecordTracker_save(files, after)
                  ELSE files
     ELSE UNCHANGED <<tracker, files>>
  /\ pc' = "resume_mark"
  /\ UNCHANGED <<config,
                 records, i, result, context_open,
                 consecutive_login_failures, state, start, effects,
                 saved, login_failed_streak, call>>

\* lines 1593-1597: mark_pending or mark_completed with its _write_state
ResumeMark ==
  /\ pc = "resume_mark"
  /\ IF resume_enabled /\ Truthy(result.grupo) /\ Truthy(result.cota)
     THEN LET loaded == ResumeManager_load_state(TRUE, resume_file)
              new == IF result.status = "login_failed"
                     THEN ResumeManager_mark_pending(
                            loaded, result.grupo, result.cota)
                     ELSE ResumeManager_mark_completed(
                            loaded, result.grupo, result.cota)
          IN files' = ResumeManager_write_state(TRUE, files, new)
     ELSE UNCHANGED files
  /\ pc' = "breaker"
  /\ UNCHANGED <<config, memory, start, effects, call>>

\* a breaker that needs one failure more
breaker_trips_late(failures, threshold) == failures > threshold

\* line 1601: the checkpoint is reached
breaker_trips(failures, threshold) == failures >= threshold

\* a loop that hands the same record to process_record again
after_record_again(n, queue) == [pc |-> "new_context", i |-> n]

\* the for loops of lines 1561-1566: the next record of the queue, or the
\* end of the loops
after_record(n, queue) ==
  IF n < Len(queue) THEN [pc |-> "new_context", i |-> n + 1]
  ELSE [pc |-> "finish", i |-> n]

\* lines 1599-1620: the consecutive-login-failure checkpoint and the step
\* to the next record
Breaker ==
  /\ pc = "breaker"
  /\ LET failures == IF result.status = "login_failed"
                     THEN consecutive_login_failures + 1 ELSE 0
     IN IF result.status = "login_failed"
           /\ breaker_trips(failures, Threshold)
        THEN /\ pc' = "idle"
             /\ Exited
        ELSE /\ consecutive_login_failures' = failures
             /\ pc' = after_record(i, records).pc
             /\ i' = after_record(i, records).i
             /\ UNCHANGED <<tracker, records, result, context_open, state,
                            start, saved, login_failed_streak>>
  /\ UNCHANGED <<disk, config, effects, call>>

\* lines 1622-1625: the loop is over, the checkpoint is cleared
Finish ==
  /\ pc = "finish"
  /\ files' = ResumeManager_clear(resume_enabled, files)
  /\ pc' = "idle"
  /\ Exited
  /\ UNCHANGED <<config, effects, call>>

\* the process is killed: its memory is gone, the files stay as they are
Crash ==
  /\ pc # "idle"
  /\ pc' = "idle"
  /\ Exited
  /\ UNCHANGED <<disk, config, effects, call>>

Next ==
  \/ RunStart
  \/ NewContext
  \/ Login
  \/ Search
  \/ Download
  \/ CloseContext
  \/ Propagate
  \/ MarkProcessed
  \/ ResumeMark
  \/ Breaker
  \/ Finish
  \/ Crash

Spec == Init /\ [][Next]_vars

(* ---------------- runs repeated over the same input ------------------- *)
\* the input file of the repeated runs, with skip_processed_records and
\* resume enabled in config.yaml
RepeatInputs == [fn : {"repeat"}, sheet : Sheets \ {<<>>}]

InitRepeat ==
  /\ InitState
  /\ config = [skip_processed_records |-> TRUE, resume_enabled |-> TRUE]
  /\ call \in RepeatInputs

\* the next run over the same input, with no command line options
RunRepeat ==
  RunStartOn(call.sheet, [ignore_resume |-> FALSE, start_from |-> 0])

NextRepeat ==
  \/ RunRepeat
  \/ NewContext
  \/ Login
  \/ Search
  \/ Download
  \/ CloseContext
  \/ Propagate
  \/ MarkProcessed
  \/ ResumeMark
  \/ Breaker
  \/ Finish
  \/ Crash

\* every call returns and the runs are repeated for ever
SpecRepeat == InitRepeat /\ [][NextRepeat]_vars /\ WF_vars(NextRepeat)

\* runs over one input with any config.yaml, no process is killed
InitRuns ==
  /\ InitState
  /\ call \in RepeatInputs

NextRuns ==
  \/ RunRepeat
  \/ NewContext
  \/ Login
  \/ Search
  \/ Download
  \/ CloseContext
  \/ Propagate
  \/ MarkProcessed
  \/ ResumeMark
  \/ Breaker
  \/ Finish

\* every call of a run returns or raises
SpecRuns == InitRuns /\ [][NextRuns]_vars /\ WF_vars(NextRuns)

TypeOK ==
  /\ pc \in {"idle", "new_context", "login", "search", "download", "close",
             "mark_processed", "resume_mark", "breaker", "finish", "raised"}
  /\ processed_file.kind \in {"absent", "json"}

(* ----------- the two stores step by step, with process kills ----------- *)
frame == <<config, records, i, context_open, consecutive_login_failures,
           start, effects, saved, login_failed_streak, call>>

Call(name, grupo, cota) ==
  [NoResult EXCEPT !.status = name, !.grupo = grupo, !.cota = cota]

\* mark_processed lines 116-134 and _save up to the open() of line 77
Store_mark_processed ==
  /\ pc = "idle"
  /\ \E k \in KeyPool, n \in 0..1 :
       /\ Truthy(k.grupo) /\ Truthy(k.cota)
       /\ tracker' = ProcessedRecordTracker_mark_processed(
                       tracker, k.grupo, k.cota,
                       [downloaded_files |->
                          SubSeq(<<pdf_path(k.grupo, k.cota, 0)>>, 1, n)])
       /\ result' = Call("mark_processed", k.grupo, k.cota)
  /\ files' = opened(files, ProcessedPath)
  /\ pc' = "save_dump"
  /\ UNCHANGED <<state, frame>>

\* _save line 78
Store_save_dump ==
  /\ pc = "save_dump"
  /\ files' = dumped(files, ProcessedPath, tracker)
  /\ pc' = "save_replace"
  /\ UNCHANGED <<tracker, result, state, frame>>

\* _save line 79: mark_processed returns
Store_save_replace ==
  /\ pc = "save_replace"
  /\ files' = replaced(files, ProcessedPath)
  /\ pc' = "idle"
  /\ UNCHANGED <<tracker, result, state, frame>>

\* mark_pending / mark_completed up to the open() of line 198
Store_mark ==
  /\ pc = "idle"
  /\ resume_enabled
  /\ \E k \in KeyPool, name \in {"mark_pending", "mark_completed"} :
       LET loaded == ResumeManager_load_state(TRUE, resume_file)
       IN /\ state' = IF name = "mark_pending"
                      THEN ResumeManager_mark_pending(loaded, k.grupo, k.cota)
                      ELSE ResumeManager_mark_completed(loaded, k.grupo,
                                                        k.cota)
          /\ result' = Call(name, k.grupo, k.cota)
  /\ files' = opened(files, ResumePath)
  /\ pc' = "write_dump"
  /\ UNCHANGED <<tracker, frame>>

\* _write_state line 199
Store_write_dump ==
  /\ pc = "write_dump"
  /\ files' = dumped(files, ResumePath, state)
  /\ pc' = "write_replace"
  /\ UNCHANGED <<tracker, result, state, frame>>

\* _write_state line 200: mark_pending / mark_completed returns
Store_write_replace ==
  /\ pc = "write_replace"
  /\ files' = replaced(files, ResumePath)
  /\ pc' = "idle"
  /\ UNCHANGED <<tracker, result, state, frame>>

\* ResumeManager.clear
Store_clear ==
  /\ pc = "idle"
  /\ resume_enabled
  /\ files' = ResumeManager_clear(TRUE, files)
  /\ result' = Call("clear", <<>>, <<>>)
  /\ UNCHANGED <<pc, tracker, state, frame>>

\* the process is killed at any point and a new one constructs its tracker
\* from the file (__init__ lines 43-48)
Store_restart ==
  /\ pc' = "idle"
  /\ tracker' = ProcessedRecordTracker_load(processed_file)
  /\ state' = EmptyState
  /\ result' = Call("restart", <<>>, <<>>)
  /\ UNCHANGED <<files, frame>>

NextStore ==
  \/ Store_mark_processed
  \/ Store_save_dump
  \/ Store_save_replace
  \/ Store_mark
  \/ Store_write_dump
  \/ Store_write_replace
  \/ Store_clear
  \/ Store_restart

SpecStore == Init /\ [][NextStore]_vars

(* --------- the two stores when the file system refuses a step ---------- *)
\* what mkdir, open, json.dump, replace and unlink raise
StoreErrors == {"OSError"}

\* a method without its except clause
after_store_error_raised(error) == "raised"

\* the except Exception clauses of lines 80-81, 189-190 and 201-202: the
\* error is logged and the method returns to its caller
after_store_error(error) == "idle"

\* mkdir (line 75/196) or open (line 77/198) raises in mark_processed,
\* mark_pending or mark_completed, or unlink (line 187) raises in clear:
\* no file has changed
Store_call_error ==
  /\ pc = "idle"
  /\ \E k \in KeyPool, error \in StoreErrors,
        name \in {"mark_processed", "mark_pending", "mark_completed",
                  "clear"} :
       /\ name = "mark_processed" => Truthy(k.grupo) /\ Truthy(k.cota)
       /\ name # "mark_processed" => resume_enabled
       /\ tracker' = IF name = "mark_processed"
                     THEN ProcessedRecordTracker_mark_processed(
                            tracker, k.grupo, k.cota,
                            [downloaded_files |-> <<>>])
                     ELSE tracker
       /\ result' = Call("io_error", <<>>, <<>>)
       /\ pc' = after_store_error(error)
  /\ UNCHANGED <<files, state, frame>>

\* json.dump (line 78/199) or replace (line 79/200) raises: the temporary
\* file stays as it is, the target file is not touched
Store_step_error ==
  /\ pc \in {"save_dump", "save_replace", "write_dump", "write_replace"}
  /\ \E error \in StoreErrors : pc' = after_store_error(error)
  /\ result' = Call("io_error", <<>>, <<>>)
  /\ UNCHANGED <<files, tracker, state, frame>>

NextStoreIO ==
  \/ Store_mark_processed
  \/ Store_save_dump
  \/ Store_save_replace
  \/ Store_mark
  \/ Store_write_dump
  \/ Store_write_replace
  \/ Store_clear
  \/ Store_restart
  \/ Store_call_error
  \/ Store_step_error

SpecStoreIO == Init /\ [][NextStoreIO]_vars

(* ------------- search_record: the contemplado status ------------------- *)
\* the characters of a page and of a keyword: n and c stand for the words
\* of "nao contemplado", x for any other text
Chars == {"n", "N", "c", "C", "x"}

\* str.upper() on one character
UpperChar(ch) == IF ch = "n" THEN "N" ELSE IF ch = "c" THEN "C" ELSE ch

upper(str) == [k \in 1..Len(str) |-> UpperChar(str[k])]

\* Python's `sub in text`
contains(sub, text) ==
  \E o \in 0..(Len(text) - Len(sub)) :
    SubSeq(text, o + 1, o + Len(sub)) = sub

\* a loop of lines 1033-1042: some keyword, in upper case, is in the page
any_keyword_in(keywords, page_upper) ==
  \E k \in 1..Len(keywords) : contains(upper(keywords[k]), page_upper)

\* a classification that looks for the contemplado keywords first
contemplado_status_contemplado_first(page_content, contemplado_keywords, nao_contemplado_keywords) ==
  LET page_upper == upper(page_content)
  IN IF any_keyword_in(contemplado_keywords, page_upper) THEN "CONTEMPLADO"
     ELSE IF any_keyword_in(nao_contemplado_keywords, page_upper)
          THEN "NAO CONTEMPLADO"
          ELSE "UNKNOWN"

\* lines 1023-1042; "NAO CONTEMPLADO" is the status the code writes with a
\* tilde
contemplado_status_of(page_content, contemplado_keywords, nao_contemplado_keywords) ==
  LET page_upper == upper(page_content)
  IN IF any_keyword_in(nao_contemplado_keywords, page_upper)
     THEN "NAO CONTEMPLADO"
     ELSE IF any_keyword_in(contemplado_keywords, page_upper)
          THEN "CONTEMPLADO"
          ELSE "UNKNOWN"

(* --------------------- the payload of the POST ------------------------- *)
\* str.replace(',', '.')
replace_comma(str) ==
  [k \in 1..Len(str) |-> IF str[k] = "," THEN "." ELSE str[k]]

\* dict.get(name, default) on an optional field
get(field, default) == IF field = <<>> THEN default ELSE field[1]

\* extract_and_fetch_boleto_direct lines 1283-1326: the fourteen
\* arguments by position (1-based here) and the payload
payload_of(submit_args, form_values) ==
  [numero_aviso |-> submit_args[2],
   vencto |-> submit_args[3],
   venctoinput |-> get(form_values.venctoinput, <<>>),
   valor_total |-> submit_args[8],
   descricao |-> submit_args[4],
   codigo_grupo |-> submit_args[5],
   codigo_cota |-> submit_args[6],
   codigo_movimento |-> submit_args[7],
   codigo_agente |-> submit_args[1],
   desc_pagamento |-> submit_args[9],
   msg_dbt_apenas_parc_antes_venc |-> submit_args[11],
   sn_emite_boleto_pix |-> submit_args[14],
   Data_Limite_Vencimento_Boleto |->
     get(form_values.Data_Limite_Vencimento_Boleto, <<>>),
   FlagAlterarData |-> get(form_values.FlagAlterarData, <<"N">>),
   codigo_origem_recurso |->
     get(form_values.codigo_origem_recurso, <<"0">>)]

\* open_boleto_page_directly lines 833-850
form_data_of(params) ==
  [codigo_agente |-> params[1],
   numero_aviso |-> params[2],
   vencto |-> params[3],
   descricao |-> params[4],
   codigo_grupo |-> params[5],
   codigo_cota |-> params[6],
   codigo_movimento |-> params[7],
   valor_total |-> replace_comma(params[8]),
   desc_pagamento |-> params[9],
   msg_dbt_apenas_parc_antes_venc |-> params[11],
   sn_emite_boleto_pix |-> params[14],
   venctoinput |-> <<>>,
   Data_Limite_Vencimento_Boleto |-> <<>>,
   FlagAlterarData |-> <<"N">>,
   codigo_origem_recurso |-> <<"0">>]

(* ------------------- functions called on their own --------------------- *)
others == <<disk, pc, config, memory, start, effects>>

Timestamps ==
  [kind : {"missing", "invalid"}, at : {0}]
  \cup [kind : {"iso"}, at : 0..(Now + 1)]

StampedKeys == {ProcessedRecordTracker_make_key(G10, C20),
                ProcessedRecordTracker_make_key(G10, C21)}

\* the dicts a processed-records file can hold: every key at most once
StampedStores ==
  {recs \in SUBSET [key : StampedKeys, timestamp : Timestamps] :
     \A e, f \in recs : e.key = f.key => e = f}

\* the states the processed-records file can be found in: missing,
\* unreadable (open raises), corrupt (json.load raises), JSON that is not an
\* object, or a dict
StoredFiles ==
  {Absent(ProcessedPath)}
  \cup [kind : {"unreadable", "partial", "non_object", "json"},
        data : StampedStores]

RetentionDays == {<<>>} \cup {<<n>> : n \in 0..MaxRetention}

\* the arguments of the constructions of a tracker
TrackerInputs ==
  [fn : {"ProcessedRecordTracker"}, done : {FALSE},
   file : StoredFiles, retention_days : RetentionDays]

\* the directory of the state files, with the processed-records file
FilesWith(file) ==
  [[p \in Paths |-> Absent(p)] EXCEPT ![ProcessedPath] = file]

\* the value of a call is added to its arguments
Returns(value) ==
  [k \in DOMAIN call \cup {"out"} |->
     IF k = "out" THEN value ELSE IF k = "done" THEN TRUE ELSE call[k]]

\* a processor is constructed over the file: setup_processed_tracker
\* lines 461-465
Call_tracker_init ==
  /\ call.fn = "ProcessedRecordTracker"
  /\ ~call.done
  /\ call' = Returns(ProcessedRecordTracker_init(
                       FilesWith(call.file), call.retention_days, Now))
  /\ UNCHANGED others

\* the PGTO PARC links of a page and the status of its record
LinkInputs ==
  [fn : {"links_to_process"}, done : {FALSE},
   processor : {"FinalWorkingProcessor", "EnhancedProductionProcessor"},
   pgto_parc_links : {[k \in 1..n |-> k] : n \in 0..MaxLinks},
   contemplado_status : {"CONTEMPLADO", "NAO CONTEMPLADO", "UNKNOWN"}]

\* lines 1160-1167, and lines 862-868 of the enhanced processor
Call_links_to_process ==
  /\ call.fn = "links_to_process"
  /\ ~call.done
  /\ call' = Returns(
       IF call.processor = "FinalWorkingProcessor"
       THEN links_to_process(call.pgto_parc_links, call.contemplado_status)
       ELSE EnhancedProductionProcessor_links_to_process(
              call.pgto_parc_links, call.contemplado_status))
  /\ UNCHANGED others

Strings(chars, n) == UNION {[1..m -> chars] : m \in 0..n}

\* the keyword lists of config.yaml (contemplado.keywords)
ContempladoKeywords ==
  {<<>>, << <<"c">> >>, << <<"C">> >>, << <<"x", "x">>, <<"c">> >>}
NaoContempladoKeywords ==
  {<<>>, << <<"n", "c">> >>, << <<"N", "C">> >>,
   << <<"x", "x">>, <<"N", "c">> >>}

StatusInputs ==
  [fn : {"contemplado_status"}, done : {FALSE},
   page_content : Strings(Chars, MaxPage),
   contemplado_keywords : ContempladoKeywords,
   nao_contemplado_keywords : NaoContempladoKeywords]

\* search_record lines 1023-1042
Call_contemplado_status ==
  /\ call.fn = "contemplado_status"
  /\ ~call.done
  /\ call' = Returns(contemplado_status_of(call.page_content,
                                           call.contemplado_keywords,
                                           call.nao_contemplado_keywords))
  /\ UNCHANGED others

\* one letter for every argument of submitFunction but the two drawn
Letters == <<"a", "b", "c", "d", "e", "f", "g", "h", "i", "j", "k", "l",
             "m", "n">>

SubmitArgs(descricao, valor_total) ==
  [k \in 1..14 |-> IF k = 4 THEN descricao
                   ELSE IF k = 8 THEN valor_total
                   ELSE <<Letters[k]>>]

\* document.forms.form1 of the page: absent, or a form in which each of
\* the four hidden fields is absent (<<>>) or present with a value
FieldNames ==
  {"venctoinput", "Data_Limite_Vencimento_Boleto", "FlagAlterarData",
   "codigo_origem_recurso"}
NoFields == [name \in FieldNames |-> <<>>]
Forms ==
  [present : {FALSE}, fields : {NoFields}]
  \cup [present : {TRUE},
        fields : [FieldNames -> {<<>>, << <<>> >>, << <<"1">> >>}]]

\* _collect_boleto_form_values lines 522-545: {} when the page has no form1,
\* otherwise every name with field?.value ?? '', the empty string for a
\* field that the form does not have
collect_boleto_form_values(form) ==
  IF ~form.present THEN NoFields
  ELSE [name \in FieldNames |->
          IF form.fields[name] = <<>> THEN << <<>> >> ELSE form.fields[name]]

PayloadInputs ==
  [fn : {"payload"}, done : {FALSE},
   builder : {"extract_and_fetch_boleto_direct",
              "open_boleto_page_directly"},
   descricao : {<<"a">>, <<"a", ",">>},
   valor_total : Strings({"1", ",", "."}, MaxValor),
   form : Forms]

\* the payload of lines 1283-1326 or the form data of lines 833-850
Call_payload ==
  /\ call.fn = "payload"
  /\ ~call.done
  /\ LET submit_args == SubmitArgs(call.descricao, call.valor_total)
     IN call' = Returns(
          IF call.builder = "extract_and_fetch_boleto_direct"
          THEN payload_of(submit_args,
                          collect_boleto_form_values(call.form))
          ELSE form_data_of(submit_args))
  /\ UNCHANGED others

(* --------------------- parse_submit_function_args ---------------------- *)
\* An onclick attribute is a sequence of tokens: the name "submitFunction",
\* the punctuation ( ) ' , ; the blanks " " and "\n", letters, the digit
\* "7" and the bare words null and None.
Blanks == {" ", "\n"}
Digits == {"7"}
None == [ok |-> FALSE]

SetMax(S) == CHOOSE x \in S : \A y \in S : y <= x

\* re.search(r"submitFunction\((.*)\)", onclick_attr, re.DOTALL): the
\* leftmost call name that has a ")" behind it, group(1) running to the LAST
\* ")" of the attribute
submit_function_match(onclick_attr) ==
  LET closes(k) == {j \in k + 2..Len(onclick_attr) : onclick_attr[j] = ")"}
      starts == {k \in 1..Len(onclick_attr) - 1 :
                   /\ onclick_attr[k] = "submitFunction"
                   /\ onclick_attr[k + 1] = "("
                   /\ closes(k) # {}}
  IN IF starts = {} THEN None
     ELSE LET k == SetMin(starts)
          IN [ok |-> TRUE,
              args_str |-> SubSeq(onclick_attr, k + 2, SetMax(closes(k)) - 1)]

\* ast.literal_eval(f"[{args_str}]") token by token. mode is "value" where a
\* value may start, "string" inside quotes, "int" inside a number, "after"
\* behind a value whose kind is "str", "int" or "none". Adjacent string
\* literals concatenate, a trailing comma is allowed, a bare name (null
\* included), a newline inside quotes, an unclosed quote or a stray ")" or
\* ";" is a ValueError or a SyntaxError.
literal_eval_start ==
  [mode |-> "value", kind |-> "str", cur |-> <<>>, acc |-> <<>>]
literal_eval_error ==
  [mode |-> "error", kind |-> "str", cur |-> <<>>, acc |-> <<>>]

\* the reading of one more token t behind the state st
literal_eval_step(st, t) ==
  LET to(mode, kind, cur) == [st EXCEPT !.mode = mode, !.kind = kind, !.cur = cur]
  IN CASE st.mode = "error" -> st
       [] st.mode = "string" /\ t = "'" -> to("after", "str", st.cur)
       [] st.mode = "string" /\ t = "\n" -> literal_eval_error
       [] st.mode = "string" /\ t \notin {"'", "\n"} -> to("string", "str", Append(st.cur, t))
       [] st.mode = "value" /\ t \in Blanks -> st
       [] st.mode = "value" /\ t = "'" -> to("string", "str", <<>>)
       [] st.mode = "value" /\ t = "None" -> to("after", "none", <<>>)
       [] st.mode = "value" /\ t \in Digits -> to("int", "int", <<t>>)
       [] st.mode = "int" /\ t \in Digits -> to("int", "int", Append(st.cur, t))
       [] st.mode \in {"int", "after"} /\ t \in Blanks -> to("after", st.kind, st.cur)
       [] st.mode = "after" /\ t = "'" /\ st.kind = "str" -> to("string", "str", st.cur)
       [] st.mode \in {"int", "after"} /\ t = "," -> [mode |-> "value", kind |-> "str", cur |-> <<>>, acc |-> Append(st.acc, [kind |-> st.kind, text |-> st.cur])]
       [] OTHER -> literal_eval_error

\* the reading of the tokens lo..hi of args_str behind the state st (by
\* halves, the state of the first half being a value before the second
\* half is read)
RECURSIVE literal_eval_read(_, _, _, _)
literal_eval_read(st, args_str, lo, hi) ==
  IF lo > hi THEN st
  ELSE IF lo = hi THEN literal_eval_step(st, args_str[lo])
  ELSE LET mid == (lo + hi) \div 2
       IN CHOOSE end \in {literal_eval_read(half, args_str, mid + 1, hi) :
                            half \in {literal_eval_read(st, args_str, lo, mid)}} : TRUE

literal_eval(args_str) ==
  LET end == literal_eval_read(literal_eval_start, args_str, 1, Len(args_str))
  IN IF end.mode = "value" THEN [ok |-> TRUE, values |-> end.acc]
     ELSE IF end.mode \in {"after", "int"}
     THEN [ok |-> TRUE,
           values |-> Append(end.acc, [kind |-> end.kind, text |-> end.cur])]
     ELSE None

\* "" if value is None else str(value)
str_or_empty(value) == IF value.kind = "none" THEN <<>> ELSE value.text

parse_submit_function_args(onclick_attr) ==
  IF onclick_attr = <<>> THEN None
  ELSE LET match == submit_function_match(onclick_attr)
       IN IF ~match.ok THEN None
          ELSE LET parsed_args ==
                     literal_eval(match.args_str)
               IN IF ~parsed_args.ok THEN None
                  ELSE [ok |-> TRUE,
                        args |-> [k \in 1..Len(parsed_args.values) |->
                                    str_or_empty(parsed_args.values[k])]]

\* ---- the attributes given to the parser ----
MaxExtraArgs == 1   \* arguments beyond the fourteen of submitFunction

Quoted(text) == <<"'">> \o text \o <<"'">>

\* an argument as the page writes it, with the string it stands for
Literals ==
  {[src |-> Quoted(<<"a">>), quoted |-> TRUE, value |-> <<"a">>],
   [src |-> Quoted(<<"a", ",", "b">>), quoted |-> TRUE,
    value |-> <<"a", ",", "b">>],
   [src |-> Quoted(<<"a", ")">>), quoted |-> TRUE, value |-> <<"a", ")">>],
   [src |-> Quoted(<<>>), quoted |-> TRUE, value |-> <<>>],
   [src |-> <<"null">>, quoted |-> FALSE, value |-> <<>>],
   [src |-> <<"None">>, quoted |-> FALSE, value |-> <<>>],
   [src |-> <<"7">>, quoted |-> FALSE, value |-> <<"7">>]}

Separators == {<<",">>, <<",", " ">>, <<",", "\n", " ">>}
Prefixes == {<<>>, <<"j", ":">>}
Suffixes == {<<>>, <<";">>, <<";", " ", "v", "(", "7", ")">>}

\* the literals of a call of n arguments: the fourth and the eighth are
\* drawn, the others are one quoted letter each
LiteralsOf(n, descricao, valor_total) ==
  [k \in 1..n |-> IF k = 4 THEN descricao
                  ELSE IF k = 8 THEN valor_total
                  ELSE [src |-> Quoted(<<"a">>), quoted |-> TRUE,
                        value |-> <<"a">>]]

RECURSIVE Join(_, _)
Join(literals, separator) ==
  IF literals = <<>> THEN <<>>
  ELSE IF Len(literals) = 1 THEN literals[1].src
  ELSE literals[1].src \o separator \o Join(Tail(literals), separator)

\* the attribute text of a call
Render(prefix, literals, separator, suffix) ==
  prefix \o <<"submitFunction", "(">> \o Join(literals, separator)
         \o <<")">> \o suffix

ParseInputs ==
  [fn : {"parse_submit_function_args"}, done : {FALSE},
   n : 14..14 + MaxExtraArgs, descricao : Literals, valor_total : Literals,
   separator : Separators, prefix : Prefixes, suffix : Suffixes]

CallLiterals == LiteralsOf(call.n, call.descricao, call.valor_total)
CallAttribute == Render(call.prefix, CallLiterals, call.separator, call.suffix)

Call_parse_submit_function_args ==
  /\ call.fn = "parse_submit_function_args"
  /\ ~call.done
  /\ call' = Returns(parse_submit_function_args(CallAttribute))
  /\ UNCHANGED others

(* ------------------ one record, document by document ------------------- *)
MinArgs == 14   \* the names unpacked from submit_args[:14]

PlainLiteral == [src |-> Quoted(<<"a">>), quoted |-> TRUE, value |-> <<"a">>]
CallOf(n) == Render(<<>>, [k \in 1..n |-> PlainLiteral], <<",">>, <<>>)

\* onclick attributes of a PGTO PARC link: none, one with no call of
\* submitFunction, one whose quote is not closed, calls of fewer than
\* fourteen arguments, and a call of fourteen
NoOnclick == <<>>
BadAttributes ==
  {NoOnclick, <<"v", "(", "7", ")">>, <<"submitFunction", "(", "'", "a", ")">>,
   CallOf(0), CallOf(MinArgs - 1)}
FullAttribute == CallOf(MinArgs)

\* what the POST to Slip.asp gives: an exception, a status that is not 2xx,
\* or a 2xx body of some size whose text may hold the marker ADODB.Command
NoResponse == [kind |-> "none", size |-> 0, marker |-> FALSE]
FailedResponses == [kind : {"raises", "not_ok"}, size : {0}, marker : {FALSE}]
SmallBodies ==
  [kind : {"ok"}, size : {MinPdfBytes - 1, MinPdfBytes}, marker : BOOLEAN]
LargeBodies == [kind : {"ok"}, size : {MinPdfBytes + 1}, marker : BOOLEAN]

\* the sink that fails for a document, if one does: upload_pdf returns None
\* or raises, generate_signed_url raises, the webhook answers with an error,
\* the audit-log row raises
SinkFailures ==
  {"none", "upload_none", "upload_raises", "signed_url", "webhook", "log"}

PageLinks ==
  [onclick : BadAttributes, response : {NoResponse}, sink_failure : {"none"}]
  \cup [onclick : {FullAttribute}, response : FailedResponses \cup SmallBodies,
        sink_failure : {"none"}]
  \cup [onclick : {FullAttribute}, response : LargeBodies,
        sink_failure : SinkFailures]

\* a fetch that posts a second time when the first POST gave no body
extract_and_fetch_boleto_direct_retrying(link, submit_args) ==
  IF Len(submit_args) < MinArgs
  THEN [kind |-> "no_data", size |-> 0, posts |-> 0]
  ELSE IF link.response.kind = "ok"
  THEN [kind |-> "data", size |-> link.response.size, posts |-> 1]
  ELSE [kind |-> "no_data", size |-> 0, posts |-> 2]

\* extract_and_fetch_boleto_direct lines 1283-1342 for arguments that
\* parsed: fewer than fourteen raise ValueError at the unpacking (caught at
\* line 1300, before the payload), otherwise the payload is built and
\* posted once, and the body comes back when response.ok
extract_and_fetch_boleto_direct(link, submit_args) ==
  IF Len(submit_args) < MinArgs
  THEN [kind |-> "no_data", size |-> 0, posts |-> 0]
  ELSE IF link.response.kind = "ok"
  THEN [kind |-> "data", size |-> link.response.size, posts |-> 1]
  ELSE [kind |-> "no_data", size |-> 0, posts |-> 1]

\* one turn of the loop up to pdf_data, lines 1174-1197
document_of(link) ==
  IF link.onclick = NoOnclick
  THEN [kind |-> "no_onclick", size |-> 0, posts |-> 0]
  ELSE LET submit_args == parse_submit_function_args(link.onclick)
       IN IF ~submit_args.ok \/ submit_args.args = <<>>
          THEN [kind |-> "parse_failed", size |-> 0, posts |-> 0]
          ELSE extract_and_fetch_boleto_direct(link, submit_args.args)

\* lines 1219-1240 and handle_post_download lines 708-766 for an accepted
\* file: which sinks have received the document
sinks_of(link) ==
  [upload |-> link.sink_failure \notin {"upload_none", "upload_raises"},
   notify |-> link.sink_failure \notin {"upload_raises", "signed_url", "webhook"},
   log |-> link.sink_failure \notin {"upload_raises", "log"}]
NoSinks == [upload |-> FALSE, notify |-> FALSE, log |-> FALSE]

\* sinks that are called for every saved file
sink_calls_unvalidated(link, document) ==
  IF document.kind = "data"
  THEN [upload_pdf |-> 1, send_notification |-> 1,
        log_processing_result |-> 1]
  ELSE [upload_pdf |-> 0, send_notification |-> 0,
        log_processing_result |-> 0]

\* how often one turn of the loop calls upload_pdf (line 1222),
\* send_notification (line 731) and log_processing_result (line 756): all
\* three sit in the branch of line 1214, and what upload_pdf raises skips
\* handle_post_download
sink_calls(link, document) ==
  IF file_accepted(document)
  THEN LET post == IF link.sink_failure = "upload_raises" THEN 0 ELSE 1
       IN [upload_pdf |-> 1, send_notification |-> post,
           log_processing_result |-> post]
  ELSE [upload_pdf |-> 0, send_notification |-> 0,
        log_processing_result |-> 0]

\* a loop that gives up the document whose sink raised
after_sinks_dropping(link, document) ==
  IF file_accepted(document) /\ link.sink_failure \in {"upload_raises", "log"}
  THEN [document EXCEPT !.kind = "no_data", !.size = 0]
  ELSE document

\* lines 1214-1245: the path is appended at line 1215, before any sink is
\* called, and what a sink raises is caught at line 1244: the document is
\* what it was
after_sinks(link, document) == document

\* where an exception of one turn of the loop is caught: the unpacking at
\* line 1300, the POST at line 1340, generate_signed_url at line 723, the
\* webhook at line 86 of src/notifier.py, upload_pdf and the audit-log row
\* at line 1244
raised_in(link, document) ==
  IF document.kind = "no_data" /\ document.posts = 0 THEN {"unpack"}
  ELSE IF link.response.kind = "raises" THEN {"post"}
  ELSE IF file_accepted(document) /\ link.sink_failure \in {"upload_raises", "signed_url", "log"}
  THEN {link.sink_failure}
  ELSE {}
Handled == {"unpack", "post", "upload_raises", "signed_url", "log"}

\* download_boletos_final_working lines 1147-1250 on a page with the links
\* pgto_parc_links
download_boletos_final_working(pgto_parc_links, contemplado_status, grupo, cota) ==
  LET todo == links_to_process(pgto_parc_links, contemplado_status)
      documents == [k \in 1..Len(todo) |->
                      after_sinks(todo[k], document_of(todo[k]))]
      of(k) == documents[k]
  IN [downloaded_files |-> downloaded_files_of(documents, grupo, cota, 1),
      saved |-> saved_of(documents, grupo, cota, 1),
      attempted |-> Len(todo),
      posts |-> [k \in 1..Len(pgto_parc_links) |->
                   IF k <= Len(todo) THEN of(k).posts ELSE 0],
      sinks |-> [k \in 1..Len(pgto_parc_links) |->
                   IF k <= Len(todo) /\ file_accepted(of(k))
                   THEN sinks_of(todo[k]) ELSE NoSinks],
      calls |-> [k \in 1..Len(todo) |-> sink_calls(todo[k], of(k))],
      escaped |-> \E k \in 1..Len(todo) :
                    raised_in(todo[k], of(k)) \ Handled # {}]

NoDownload ==
  [downloaded_files |-> <<>>, saved |-> <<>>, attempted |-> 0,
   posts |-> <<>>,
   sinks |-> <<>>, calls |-> <<>>, escaped |-> FALSE]

\* process_record lines 1374-1413: the result of one record whose context
\* opens and closes
process_record(login, search, pgto_parc_links, contemplado_status, grupo, cota) ==
  IF ~login
  THEN [status |-> "login_failed", downloaded_count |-> <<>>, download |-> NoDownload]
  ELSE IF ~search
  THEN [status |-> "search_failed", downloaded_count |-> <<>>, download |-> NoDownload]
  ELSE LET download == download_boletos_final_working(pgto_parc_links, contemplado_status, grupo, cota)
       IN [status |-> IF download.downloaded_files # <<>>
                      THEN "success" ELSE "no_downloads",
           downloaded_count |-> <<Len(download.downloaded_files)>>,
           download |-> download]

Pages == UNION {[1..n -> PageLinks] : n \in 0..MaxLinks}
Statuses == {"CONTEMPLADO", "NAO CONTEMPLADO", "UNKNOWN"}

RecordInputs ==
  [fn : {"process_record"}, done : {FALSE}, login : {FALSE}, search : {FALSE},
   pgto_parc_links : {<<>>}, contemplado_status : {"UNKNOWN"}]
  \cup [fn : {"process_record"}, done : {FALSE}, login : {TRUE},
        search : {FALSE}, pgto_parc_links : {<<>>},
        contemplado_status : {"UNKNOWN"}]
  \cup [fn : {"process_record"}, done : {FALSE}, login : {TRUE},
        search : {TRUE}, pgto_parc_links : Pages,
        contemplado_status : Statuses]

Call_process_record ==
  /\ call.fn = "process_record"
  /\ ~call.done
  /\ call' = Returns(process_record(call.login, call.search,
                                    call.pgto_parc_links,
                                    call.contemplado_status, G10, C20))
  /\ UNCHANGED others

(* --------------------- the calls of the tracker ------------------------ *)
\* the records a tracker can hold before a call: entries of earlier runs
OldEntry(cota) ==
  [key |-> ProcessedRecordTracker_make_key(G10, cota), grupo |-> G10,
   cota |-> cota, timestamp |-> [kind |-> "iso", at |-> 0],
   downloaded_files |-> <<pdf_path(G10, cota, 0)>>]
OldStores == SUBSET {OldEntry(C20), OldEntry(C21)}

\* the metadata run_automation builds at lines 1579-1584 for a result that
\* ended success or no_downloads; result['timestamp'] is the isoformat
\* string of line 1367
Metadatas ==
  [timestamp : {[kind |-> "iso", at |-> Now]}, status : {"success"},
   downloaded_files : {<<pdf_path(G10, C20, 1)>>}]
  \cup [timestamp : {[kind |-> "iso", at |-> Now]}, status : {"no_downloads"},
        downloaded_files : {<<>>}]

MarkInputs ==
  [fn : {"mark_processed"}, done : {FALSE}, records : OldStores,
   grupo : {G10, Blank}, cota : {C20, C21, Blank}, metadata : Metadatas]
  \cup [fn : {"is_processed"}, done : {FALSE}, records : OldStores,
        grupo : {G10, Blank}, cota : {C20, C21, Blank},
        metadata : {<<>>}]

\* is_processed lines 111-114 and mark_processed lines 116-135 on a tracker
\* that holds call.records: the value returned and self.records afterwards
Call_tracker ==
  /\ call.fn \in {"mark_processed", "is_processed"}
  /\ ~call.done
  /\ call' = Returns(
       IF call.fn = "is_processed"
       THEN [value |-> ProcessedRecordTracker_is_processed(
                         call.records, call.grupo, call.cota),
             records |-> call.records]
       ELSE [value |-> FALSE,
             records |-> ProcessedRecordTracker_mark_processed(
                           call.records, call.grupo, call.cota,
                           call.metadata)])
  /\ UNCHANGED others

(* ------------------- the results of one run ---------------------------- *)
ResultStatuses ==
  {"success", "no_downloads", "login_failed", "search_failed", "error"}

Count(seq, P(_)) == Cardinality({n \in 1..Len(seq) : P(seq[n])})

\* lines 1627-1645: the summary of the final report
summary_of(all_results) ==
  [total_records |-> Len(all_results),
   successful |-> Count(all_results, LAMBDA r : r = "success"),
   failed |-> Count(all_results,
                    LAMBDA r : r \notin {"success", "no_downloads"}),
   no_downloads |-> Count(all_results, LAMBDA r : r = "no_downloads")]

\* the loop of lines 1561-1620 over the statuses that process_record gives
\* to the records of the queue, from record n on: all_results grows by one
\* per record (line 1570), the return of line 1607 leaves run_automation
\* with no report, the end of the loop goes on to the report of lines
\* 1627-1653
RECURSIVE run_results(_, _, _, _)
run_results(statuses, n, consecutive, all_results) ==
  IF n > Len(statuses)
  THEN [all_results |-> all_results, report |-> <<summary_of(all_results)>>]
  ELSE LET status == statuses[n]
           results == Append(all_results, status)
           failures == IF status = "login_failed" THEN consecutive + 1 ELSE 0
       IN IF status = "login_failed" /\ breaker_trips(failures, Threshold)
          THEN [all_results |-> results, report |-> <<>>]
          ELSE run_results(statuses, n + 1, failures, results)

RunInputs ==
  [fn : {"run_automation"}, done : {FALSE},
   statuses : UNION {[1..n -> ResultStatuses] : n \in 1..MaxRows}]

Call_run_automation ==
  /\ call.fn = "run_automation"
  /\ ~call.done
  /\ call' = Returns(run_results(call.statuses, 1, 0, <<>>))
  /\ UNCHANGED others

(* ------------------ a run and the run that follows it ------------------ *)
\* the loop of lines 1561-1620 with what it leaves behind: st.tracker after
\* mark_processed (lines 1576-1591), st.state after mark_pending and
\* mark_completed (lines 1593-1597), st.attempted the records handed to
\* process_record so far, st.aborted set by the return of line 1607; the end
\* of the loop clears the checkpoint (lines 1624-1625)
RECURSIVE run_checkpoints(_, _, _, _, _)
run_checkpoints(queue, statuses, n, consecutive, st) ==
  IF n > Len(queue) THEN [st EXCEPT !.state = EmptyState]
  ELSE LET record == queue[n]
           status == statuses[record.row]
           grupo_key == Strip(record.grupo)
           cota_key == Strip(record.cota)
           metadata == [downloaded_files |-> <<>>, status |-> status]
           failures == IF status = "login_failed" THEN consecutive + 1 ELSE 0
           marked == IF marks_processed(status)
                     THEN ProcessedRecordTracker_mark_processed(
                            st.tracker, grupo_key, cota_key, metadata)
                     ELSE st.tracker
           checkpoint == IF ~Truthy(grupo_key) \/ ~Truthy(cota_key)
                         THEN st.state
                         ELSE IF status = "login_failed"
                         THEN ResumeManager_mark_pending(
                                st.state, grupo_key, cota_key)
                         ELSE ResumeManager_mark_completed(
                                st.state, grupo_key, cota_key)
           after == [tracker |-> marked, state |-> checkpoint,
                     attempted |-> Append(st.attempted, record),
                     aborted |-> FALSE]
       IN IF status = "login_failed" /\ breaker_trips(failures, Threshold)
          THEN [after EXCEPT !.aborted = TRUE]
          ELSE run_checkpoints(queue, statuses, n + 1, failures, after)

\* lines 1473-1528: the work queue of a run that finds st behind it, with
\* skip_processed_records and resume enabled
next_queue(sheet, st) ==
  LET all == load_records(sheet, 0, 0)
      queue == filtered_records(all, st.tracker, TRUE)
  IN resume_records(queue, st.state).records

FreshRun ==
  [tracker |-> EmptyRecords, state |-> EmptyState, attempted |-> <<>>,
   aborted |-> FALSE]

ResumeInputs ==
  UNION { [fn : {"resume_after_run"}, done : {FALSE}, sheet : {sheet},
           statuses : [1..Len(sheet) -> ResultStatuses]] :
          sheet \in Sheets \ {<<>>} }

\* a first run over the sheet, whose records end with call.statuses, and the
\* work queue of the run started after it
Call_resume_after_run ==
  /\ call.fn = "resume_after_run"
  /\ ~call.done
  /\ LET first == run_checkpoints(load_records(call.sheet, 0, 0),
                                  call.statuses, 1, 0, FreshRun)
     IN call' = Returns([first |-> first,
                         queue |-> next_queue(call.sheet, first)])
  /\ UNCHANGED others

(* ------------------- a run that finds a checkpoint --------------------- *)
\* the keys a checkpoint can hold
CheckpointKeys == {<<>>} \cup {<<KeyOf(r.grupo, r.cota)>> : r \in RowPool}

CheckpointInputs ==
  [fn : {"resume"}, done : {FALSE}, sheet : Sheets \ {<<>>},
   pending : CheckpointKeys, last_processed : CheckpointKeys]

\* lines 1495-1524 on the queue of call.sheet and a checkpoint file that
\* holds call.pending and call.last_processed: the records left to the loop
\* and the files afterwards
Call_resume ==
  /\ call.fn = "resume"
  /\ ~call.done
  /\ LET queue == load_records(call.sheet, 0, 0)
         before == ResumeManager_write_state(
                     TRUE, files, [pending |-> call.pending,
                                   last_processed |-> call.last_processed])
         resume_state == ResumeManager_load_state(TRUE, before[ResumePath])
         resumed == resume_records(queue, resume_state)
     IN call' = Returns([queue |-> queue,
                         records |-> resumed.records,
                         files |-> IF resumed.clear
                                   THEN ResumeManager_clear(TRUE, before)
                                   ELSE before])
  /\ UNCHANGED others

CallInputs ==
  TrackerInputs \cup LinkInputs \cup StatusInputs \cup PayloadInputs
  \cup ParseInputs \cup RecordInputs \cup MarkInputs
  \cup RunInputs \cup ResumeInputs \cup CheckpointInputs

InitCalls ==
  /\ InitState
  /\ call \in CallInputs

NextCalls ==
  \/ Call_tracker_init
  \/ Call_links_to_process
  \/ Call_contemplado_status
  \/ Call_payload
  \/ Call_parse_submit_function_args
  \/ Call_process_record
  \/ Call_tracker
  \/ Call_run_automation
  \/ Call_resume_after_run
  \/ Call_resume

SpecCalls == InitCalls /\ [][NextCalls]_vars

\* a call has returned
Called(fn) == call.fn = fn /\ call.done

(* ------------------------------- claims -------------------------------- *)
ResultKey == KeyOf(result.grupo, result.cota)
Checkpoint == ResumeManager_load_state(TRUE, resume_file)
Processing == pc \in {"login", "search", "download", "close"}

\* C1: with the checkpoint enabled, when the Threshold-th consecutive record
\* has ended login_failed the run stops there (no later record is attempted,
\* the checkpoint is not cleared) and the checkpoint's pending entry is the
\* (grupo, cota) of that record.
C1_BreakerLeavesPendingAtNth ==
  [][ ( /\ pc = "breaker"
        /\ resume_enabled
        /\ result.status = "login_failed"
        /\ consecutive_login_failures + 1 = Threshold )
      => ( /\ pc' = "idle"
           /\ resume_file' = resume_file
           /\ resume_file.kind = "json"
           /\ resume_file.data.pending = <<ResultKey>> ) ]_vars

\* C2: with skip_processed_records and resume enabled, a sink receives a
\* document of a (grupo, cota) only if it has received none of that key
\* before, over any runs, crashes and sheets that repeat a key (stated for
\* the records whose grupo and cota are not empty).
C2_SideEffectsAtMostOnce ==
  [][ ( /\ config.skip_processed_records
        /\ resume_enabled
        /\ pc = "download"
        /\ Truthy(result.grupo) /\ Truthy(result.cota)
        /\ result'.downloaded_files # <<>> )
      => ( /\ ~effects[ResultKey].upload
           /\ ~effects[ResultKey].notify
           /\ ~effects[ResultKey].log ) ]_vars

\* first position of a key in a queue, 0 when it is not there
FirstOf(queue, key) ==
  LET hits == { n \in 1..Len(queue) :
                  queue[n].grupo = key.grupo /\ queue[n].cota = key.cota }
  IN IF hits = {} THEN 0 ELSE SetMin(hits)

\* C3: in a run that applies the checkpoint, the first record attempted is
\* the pending record when the pending key is in the work queue, and the
\* record right after the last_processed one when only last_processed is
\* there and in the queue; the records before that point are left out of
\* the run.
C3_ResumePoint ==
  (start.resume_used /\ pc = "login" /\ i = 1) =>
    LET queue == start.queue
        pending == Checkpoint.pending
        last == Checkpoint.last_processed
    IN /\ (pending # <<>> /\ FirstOf(queue, pending[1]) > 0) =>
            LET p == FirstOf(queue, pending[1])
            IN /\ result.row = queue[p].row
               /\ ResultKey = pending[1]
               /\ records = SubSeq(queue, p, Len(queue))
       /\ (pending = <<>> /\ last # <<>> /\ FirstOf(queue, last[1]) > 0) =>
            LET p == FirstOf(queue, last[1])
            IN /\ result.row = queue[p + 1].row
               /\ records = SubSeq(queue, p + 1, Len(queue))

\* C3 witness: a run resumed at a pending record that is not the first of
\* the work queue
C3_Witness ==
  /\ start.resume_used /\ pc = "login" /\ i = 1
  /\ Checkpoint.pending # <<>>
  /\ FirstOf(start.queue, Checkpoint.pending[1]) > 1

\* C4: while a record is being processed (from its authentication on) the
\* checkpoint's pending entry is that record.
C4_PendingBeforeLogin ==
  (resume_enabled /\ Processing) => Checkpoint.pending = <<ResultKey>>

\* C5: pending and last_processed never hold the same key.
C5_PendingLastExclusive ==
  ~( /\ Checkpoint.pending # <<>>
     /\ Checkpoint.pending = Checkpoint.last_processed )

Returned(from) == pc = from /\ pc' = "idle" /\ result' = result
CheckpointAfter == ResumeManager_load_state(TRUE, resume_file')

NewContent(path) == IF path = ProcessedPath THEN tracker ELSE state

\* C8: every change of a state file is one step from its previous whole
\* content to the whole new content (or its removal by clear()); no step,
\* and no process kill between the steps of a save, leaves it partial.
C8_AtomicPersistence ==
  [][ \A path \in {ProcessedPath, ResumePath} :
        \/ files'[path] = files[path]
        \/ files'[path] = Json(NewContent(path))
        \/ /\ path = ResumePath
           /\ result'.status = "clear"
           /\ files'[path] = Absent(path) ]_vars

\* C8 witness: the process was killed between the open and the end of the
\* dump of a save; the temporary file is partial, the target file is whole
C8_Witness ==
  /\ pc = "idle"
  /\ result.status = "restart"
  /\ files[tmp_path(ProcessedPath)].kind = "partial"
  /\ processed_file.kind = "json"
  /\ processed_file.data # EmptyRecords

StoredKeys(file) ==
  IF file.kind = "json" THEN {KeyOf(e.grupo, e.cota) : e \in file.data}
  ELSE {}

C10_ProcessedIffTerminal ==
  [][ (pc = "mark_processed" /\ pc' = "resume_mark") =>
        IF result.status \in {"success", "no_downloads"}
        THEN ResultKey \in StoredKeys(processed_file')
        ELSE processed_file' = processed_file ]_vars

Elems(seq) == {seq[n] : n \in 1..Len(seq)}
StoredEntries(file) == IF file.kind = "json" THEN file.data ELSE {}

\* C11: a path enters a record's downloaded_files only in the download step
\* and only when the bytes saved at that path are more than the minimum
\* size; a processed-store entry that appears with document paths takes
\* them from the downloaded_files of the record being marked.
C11_OnlyValidatedDocuments ==
  [][ /\ (result'.downloaded_files # result.downloaded_files
           /\ result'.downloaded_files # <<>>)
        => /\ pc = "download"
           /\ \A path \in Elems(result'.downloaded_files) :
                \E s \in Elems(saved') :
                  s.path = path /\ s.size > MinPdfBytes
      /\ \A e \in StoredEntries(processed_file')
                     \ StoredEntries(processed_file) :
           e.downloaded_files # <<>>
             => /\ pc = "mark_processed"
                /\ e.downloaded_files = result.downloaded_files ]_vars

\* C11 witness: the download loop saved a file of the minimum size exactly,
\* it is not in the record's downloaded_files
C11_Witness ==
  /\ pc = "close"
  /\ saved # <<>>
  /\ saved[1].size = MinPdfBytes
  /\ result.status = "no_downloads"
  /\ \E e \in StoredEntries(processed_file) : e.downloaded_files # <<>>

\* C12: no exception leaves process_record: whatever is raised while a
\* record is processed becomes the record's outcome and the loop goes on.
C12_ExceptionsStayInRecord == pc # "raised"

\* C13: a record's browser context is open only while process_record is
\* between its login step and its finally clause.
C13_ContextClosedOnExit == context_open => Processing

\* consecutive_login_failures after lines 1599-1610 for the current result
CounterAfter ==
  IF result.status = "login_failed" THEN consecutive_login_failures + 1
  ELSE 0

\* C14: the breaker's counter is the trailing streak of login_failed
\* outcomes of the run: while a record is processed it is the streak of the
\* records before it, after the record's outcome it becomes the streak that
\* includes it, and the breaker stops the run exactly when that streak is
\* the threshold.
C14_CounterIsStreak ==
  [][ /\ (pc \in {"new_context", "login", "search", "download", "close"})
        => /\ consecutive_login_failures = login_failed_streak
           /\ login_failed_streak < Threshold
      /\ (pc = "breaker")
        => /\ CounterAfter = login_failed_streak
           /\ breaker_trips(CounterAfter, Threshold)
                <=> login_failed_streak = Threshold
           /\ pc' \in {"new_context", "finish"}
                => /\ login_failed_streak < Threshold
                   /\ consecutive_login_failures' = login_failed_streak
           /\ login_failed_streak = Threshold => pc' \in {"breaker", "idle"}
    ]_vars

\* C14 witness: the streak of login failures is at the threshold and the
\* breaker is about to stop the run
C14_Witness ==
  /\ pc = "breaker"
  /\ i = Threshold
  /\ consecutive_login_failures = Threshold - 1
  /\ login_failed_streak = Threshold

\* the days of the window of a call, when a window is configured
Window == call.retention_days[1]

\* C15: with a retention window, the tracker constructed over a dict file
\* has none of the entries whose timestamp is older than now minus the
\* window and all the other entries; the file is written again exactly when
\* an entry was removed; without a window the records are the file's and
\* the file is not written.
C15_RetentionPurge ==
  (Called("ProcessedRecordTracker") /\ call.file.kind = "json") =>
    LET old == {e \in call.file.data :
                  e.timestamp.kind = "iso" /\ e.timestamp.at < Now - Window}
    IN IF TruthyDays(call.retention_days)
       THEN /\ call.out.records = call.file.data \ old
            /\ (old = {}) => call.out.files = FilesWith(call.file)
            /\ (old # {}) =>
                  /\ call.out.files[ProcessedPath] = Json(call.file.data \ old)
                  /\ call.out.files # FilesWith(call.file)
       ELSE /\ call.out.records = call.file.data
            /\ call.out.files = FilesWith(call.file)

\* C15 witness: one entry is older than the window, one is on its edge
C15_Witness ==
  /\ Called("ProcessedRecordTracker")
  /\ call.file.kind = "json"
  /\ TruthyDays(call.retention_days)
  /\ \E e \in call.file.data :
       e.timestamp.kind = "iso" /\ e.timestamp.at = Now - Window
  /\ \E e \in call.file.data :
       e.timestamp.kind = "iso" /\ e.timestamp.at < Now - Window
  /\ Cardinality(call.out.records) = 1

\* C16: over a file that is missing, unreadable, corrupt or not a JSON
\* object the tracker is constructed with an empty store, and nothing is
\* written.
C16_LoadFailureIsEmptyStore ==
  (Called("ProcessedRecordTracker") /\ call.file.kind # "json") =>
    /\ call.out.records = EmptyRecords
    /\ call.out.files = FilesWith(call.file)

\* C16 witness: the file holds a JSON list of entries
C16_Witness ==
  /\ Called("ProcessedRecordTracker")
  /\ call.file.kind = "non_object"
  /\ call.file.data # {}
  /\ call.out.records = EmptyRecords

\* C17: a step of mark_processed, mark_pending, mark_completed or clear
\* that the file system refuses ends the method with a return to its
\* caller, the target files as they were; no step ends with an exception
\* outside the method.
C17_StoreErrorsAreSwallowed ==
  [][ /\ pc' # "raised"
      /\ (result'.status = "io_error" /\ (pc # "idle" \/ result' # result))
           => /\ pc' = "idle"
              /\ processed_file' = processed_file
              /\ resume_file' = resume_file ]_vars

\* C17 witness: json.dump failed in a save of the tracker, the method has
\* returned, the temporary file is partial and the earlier store is whole
C17_Witness ==
  /\ pc = "idle"
  /\ result.status = "io_error"
  /\ files[tmp_path(ProcessedPath)].kind = "partial"
  /\ processed_file.kind = "json"
  /\ Cardinality(tracker) > Cardinality(processed_file.data)

\* C18: the links chosen for a record are the first link when its status
\* is CONTEMPLADO and every link of the page for any other status.
C18_LinksByStatus ==
  Called("links_to_process") =>
    call.out = IF call.contemplado_status = "CONTEMPLADO"
               THEN SubSeq(call.pgto_parc_links, 1,
                           Min(1, Len(call.pgto_parc_links)))
               ELSE call.pgto_parc_links

LowerChar(ch) == IF ch = "N" THEN "n" ELSE IF ch = "C" THEN "c" ELSE ch

\* the keyword occurs in the text when case is ignored
OccursIn(keyword, text) ==
  \E o \in 0..(Len(text) - Len(keyword)) :
    \A j \in 1..Len(keyword) :
      LowerChar(text[o + j]) = LowerChar(keyword[j])

AnyOccursIn(keywords, text) ==
  \E k \in 1..Len(keywords) : OccursIn(keywords[k], text)

\* C19: the status is NAO CONTEMPLADO when a not-contemplated keyword
\* occurs in the page, case ignored, whatever else occurs; otherwise
\* CONTEMPLADO when a contemplated keyword occurs; otherwise UNKNOWN.
C19_NotContempladoFirst ==
  Called("contemplado_status") =>
    call.out =
      IF AnyOccursIn(call.nao_contemplado_keywords, call.page_content)
      THEN "NAO CONTEMPLADO"
      ELSE IF AnyOccursIn(call.contemplado_keywords, call.page_content)
           THEN "CONTEMPLADO"
           ELSE "UNKNOWN"

\* C19 witness: a page in mixed case has a not-contemplated keyword, which
\* contains a contemplated one
C19_Witness ==
  /\ Called("contemplado_status")
  /\ call.page_content = <<"x", "n", "C">>
  /\ call.nao_contemplado_keywords = << <<"N", "C">> >>
  /\ call.contemplado_keywords = << <<"c">> >>
  /\ call.out = "NAO CONTEMPLADO"

\* the text with a period wherever it has a comma
Periods(text, with) ==
  /\ Len(with) = Len(text)
  /\ \A k \in 1..Len(text) :
       with[k] = (IF text[k] = "," THEN "." ELSE text[k])

\* C20: in the payload of a document valor_total is argument 7 (counted
\* from 0) with a period for every comma, and every other field taken from
\* an argument is that argument, character for character.
C20_PayloadFields ==
  Called("payload") =>
    LET args == SubmitArgs(call.descricao, call.valor_total)
    IN /\ Periods(args[8], call.out.valor_total)
       /\ call.out.codigo_agente = args[1]
       /\ call.out.numero_aviso = args[2]
       /\ call.out.vencto = args[3]
       /\ call.out.descricao = args[4]
       /\ call.out.codigo_grupo = args[5]
       /\ call.out.codigo_cota = args[6]
       /\ call.out.codigo_movimento = args[7]
       /\ call.out.desc_pagamento = args[9]
       /\ call.out.msg_dbt_apenas_parc_antes_venc = args[11]
       /\ call.out.sn_emite_boleto_pix = args[14]

\* the strings the arguments of the call stand for, in their order
Expected == [k \in 1..Len(CallLiterals) |-> CallLiterals[k].value]
AllQuoted == \A k \in 1..Len(CallLiterals) : CallLiterals[k].quoted

\* C21: for every attribute that contains a submitFunction(...) call with 14
\* or more single-quoted arguments (arguments with commas and lists over
\* several lines included), parse_submit_function_args returns exactly those
\* arguments, as strings, in their order.
C21_QuotedArgumentsReturned ==
  (Called("parse_submit_function_args") /\ AllQuoted)
    => (call.out.ok /\ call.out.args = Expected)

\* C22: an unquoted null literal or an empty quoted literal among the
\* arguments becomes the empty string at its own position and every other
\* argument is returned at its position (attributes that end with the call,
\* so that the match of the call is not in question).
C22_NullAndEmptyNormalized ==
  (/\ Called("parse_submit_function_args")
   /\ \A k \in 1..Len(CallLiterals) :
        CallLiterals[k].quoted \/ CallLiterals[k].src = <<"null">>
   /\ \A k \in 1..Len(call.suffix) : call.suffix[k] # ")")
    => (call.out.ok /\ call.out.args = Expected)

\* the record of a call went through login and search to its documents
Downloaded == Called("process_record") /\ call.login /\ call.search
Page == call.pgto_parc_links
Met(k) == k \in 1..call.out.download.attempted

\* C23: a link whose onclick has no call of submitFunction, cannot be
\* tokenized or gives fewer than fourteen arguments fails alone and before
\* the payload: no POST is issued for it, no exception leaves the loop of
\* the documents, and the link after it is attempted (for a record that is
\* not CONTEMPLADO, whose links are all to be fetched).
C23_BadAttributeFailsAlone ==
  Downloaded =>
    \A k \in 1..Len(Page) :
      (Met(k) /\ Page[k].onclick \in BadAttributes \ {NoOnclick}) =>
        /\ call.out.download.posts[k] = 0
        /\ ~call.out.download.escaped
        /\ (k < Len(Page) /\ call.contemplado_status # "CONTEMPLADO")
             => Met(k + 1)

\* the path of the k-th link of the page (generate_filename takes the index
\* of the loop, counted from 0)
PathOf(k) == pdf_path(G10, C20, k - 1)
Recorded(k) == PathOf(k) \in Elems(call.out.download.downloaded_files)
Saved(k) == \E f \in Elems(call.out.download.saved) : f.path = PathOf(k)

\* C24: a document whose arguments parsed is posted exactly once, with no
\* retry; when the response is not 2xx no bytes come back: nothing is saved
\* for the document, it is not in downloaded_files and no sink receives it.
C24_OnePostPerDocument ==
  Downloaded =>
    \A k \in 1..Len(Page) :
      /\ call.out.download.posts[k] <= 1
      /\ (Met(k) /\ Page[k].onclick = FullAttribute)
           => call.out.download.posts[k] = 1
      /\ (Met(k) /\ Page[k].response.kind = "not_ok")
           => (/\ ~Saved(k)
               /\ ~Recorded(k)
               /\ call.out.download.sinks[k] = NoSinks)

C24_Witness ==
  /\ Downloaded
  /\ Len(Page) = 1
  /\ Page[1].onclick = FullAttribute
  /\ Page[1].response.kind = "not_ok"
  /\ call.out.download.posts = <<1>>
  /\ call.out.download.downloaded_files = <<>>
  /\ call.out.status = "no_downloads"

\* C25: a body whose text holds the server-error marker ADODB.Command is a
\* server error whatever its size: it is not recorded in downloaded_files
\* and no sink (upload, notification, audit log) receives it.
C25_ServerErrorNeverRecorded ==
  Downloaded =>
    \A k \in 1..Len(Page) :
      (Met(k) /\ Page[k].response.kind = "ok" /\ Page[k].response.marker)
        => (~Recorded(k) /\ call.out.download.sinks[k] = NoSinks)

\* a link whose document is fetched and passes the validation of the size
Valid(link) ==
  /\ link.onclick = FullAttribute
  /\ link.response.kind = "ok"
  /\ link.response.size > MinPdfBytes

\* C26: the status of a record is success exactly when at least one of its
\* documents was validated, with downloaded_count the number of
\* downloaded_files, and no_downloads exactly when login and search
\* succeeded and no document was validated; a document that fails does not
\* keep the documents after it from being attempted and counted (for a
\* record that is not CONTEMPLADO, whose links are all to be fetched).
C26_StatusCountsValidatedDocuments ==
  Called("process_record") =>
    /\ call.out.status = "success"
         <=> (call.login /\ call.search
              /\ \E k \in 1..Len(Page) : Met(k) /\ Valid(Page[k]))
    /\ call.out.status = "no_downloads"
         <=> (call.login /\ call.search
              /\ ~\E k \in 1..Len(Page) : Met(k) /\ Valid(Page[k]))
    /\ call.out.status \in {"success", "no_downloads"}
         => call.out.downloaded_count
              = <<Len(call.out.download.downloaded_files)>>
    /\ \A k \in 1..Len(Page) - 1 :
         (Met(k) /\ ~Valid(Page[k])
          /\ call.contemplado_status # "CONTEMPLADO")
           => (Met(k + 1) /\ (Valid(Page[k + 1]) => Recorded(k + 1)))

\* C27: the failure of a sink (Drive upload, signed link, webhook, audit-log
\* row) for a validated document changes nothing of the outcome: the
\* document stays in downloaded_files, the record reports success and is
\* one that the orchestrator marks processed.
C27_SinkFailureKeepsOutcome ==
  Downloaded =>
    \A k \in 1..Len(Page) :
      (Met(k) /\ Valid(Page[k]) /\ Page[k].sink_failure # "none")
        => (/\ Recorded(k)
            /\ call.out.status = "success"
            /\ marks_processed(call.out.status)
            /\ ~call.out.download.escaped)

C27_Witness ==
  /\ Downloaded
  /\ Len(Page) = 1
  /\ Valid(Page[1])
  /\ Page[1].sink_failure = "upload_raises"
  /\ call.out.download.sinks = <<NoSinks>>
  /\ call.out.download.downloaded_files = <<PathOf(1)>>
  /\ call.out.status = "success"

\* a step that ends a run and unlinks the checkpoint file
RunEndClears ==
  /\ pc # "idle"
  /\ pc' = "idle"
  /\ resume_file.kind # "absent"
  /\ resume_file'.kind = "absent"

\* C28: the checkpoint is deleted at the end of a run only when the run was
\* successful: not by the run that the consecutive-login-failure checkpoint
\* stops, and not by a run that ends with a record still pending after a
\* login failure.
C28_CheckpointKeptUnlessSuccessful ==
  [][RunEndClears =>
       /\ pc = "finish"
       /\ Checkpoint.pending = <<>>
       /\ result.status # "login_failed"]_vars

\* C29: the orchestrator never attempts (opens a context, logs in, searches
\* or downloads for) a record whose sanitized grupo or cota is empty.
C29_NoAttemptWithoutKey ==
  /\ pc = "new_context"
       => (/\ Truthy(Strip(records[i].grupo))
           /\ Truthy(Strip(records[i].cota)))
  /\ Processing => (Truthy(result.grupo) /\ Truthy(result.cota))

\* the value the payload is to carry for a hidden field that the page form
\* does not have
DefaultOf(name) ==
  IF name = "FlagAlterarData" THEN <<"N">>
  ELSE IF name = "codigo_origem_recurso" THEN <<"0">>
  ELSE <<>>

\* C30: in the payload of extract_and_fetch_boleto_direct a hidden field
\* that is absent from the page form has its default (venctoinput and
\* Data_Limite_Vencimento_Boleto the empty string, FlagAlterarData "N",
\* codigo_origem_recurso "0") and a field that is present has its form value
\* unchanged.
C30_HiddenFieldDefaults ==
  (Called("payload") /\ call.builder = "extract_and_fetch_boleto_direct")
    => \A name \in FieldNames :
         call.out[name] =
           IF call.form.present /\ call.form.fields[name] # <<>>
           THEN call.form.fields[name][1]
           ELSE DefaultOf(name)

\* C31: the size validation rejects a body of fewer than MinPdfBytes bytes
\* only: a body of exactly MinPdfBytes bytes without the error marker is
\* accepted and recorded, one of MinPdfBytes - 1 bytes is rejected.
C31_ExactMinimumAccepted ==
  Downloaded =>
    \A k \in 1..Len(Page) :
      (Met(k) /\ Page[k].response.kind = "ok" /\ ~Page[k].response.marker)
        => (Recorded(k) <=> Page[k].response.size >= MinPdfBytes)

CallKey == ProcessedRecordTracker_make_key(call.grupo, call.cota)
Marked == Called("mark_processed") /\ Truthy(call.grupo) /\ Truthy(call.cota)

\* C32: the entry that mark_processed stores for a record holds the outcome
\* of the record (success or no_downloads) and its timestamp.
C32_EntryRecordsOutcome ==
  Marked =>
    \E e \in call.out.records :
      /\ e.key = CallKey
      /\ e.timestamp = call.metadata.timestamp
      /\ "status" \in DOMAIN e
      /\ e.status = call.metadata.status

\* C34: mark_processed(g, c, metadata) changes the entry of the key "g|c"
\* alone, which afterwards is the one entry of that key and carries the new
\* metadata; every other entry is as it was; with an empty grupo or cota
\* nothing changes; is_processed leaves the records as they were.
C34_MarkProcessedFrame ==
  /\ Called("mark_processed") =>
       IF Truthy(call.grupo) /\ Truthy(call.cota)
       THEN /\ {e \in call.out.records : e.key # CallKey}
                 = {e \in call.records : e.key # CallKey}
            /\ Cardinality({e \in call.out.records : e.key = CallKey}) = 1
            /\ \A e \in call.out.records :
                 e.key = CallKey
                   => e.downloaded_files = call.metadata.downloaded_files
       ELSE call.out.records = call.records
  /\ Called("is_processed") =>
       /\ call.out.records = call.records
       /\ call.out.value
            <=> (/\ Truthy(call.grupo) /\ Truthy(call.cota)
                 /\ \E e \in call.records : e.key = CallKey)

C34_Witness ==
  /\ Called("mark_processed")
  /\ call.grupo = G10
  /\ call.cota = C20
  /\ call.records = {OldEntry(C20), OldEntry(C21)}
  /\ OldEntry(C21) \in call.out.records
  /\ OldEntry(C20) \notin call.out.records
  /\ Cardinality(call.out.records) = 2

\* C33: a run that attempts at least one record produces a summary, with
\* the list of the outcomes of its records, whose success, failure and
\* no-result counts sum to the number of records the run attempted.
C33_SummaryCountsEveryAttempt ==
  (Called("run_automation") /\ Len(call.out.all_results) >= 1) =>
    /\ call.out.report # <<>>
    /\ LET summary == call.out.report[1]
       IN /\ summary.total_records = Len(call.out.all_results)
          /\ summary.successful + summary.failed + summary.no_downloads
               = Len(call.out.all_results)

\* C35: when a run was stopped by the circuit breaker, every record that
\* ended login_failed in it is in the work queue of the run that resumes
\* from its checkpoint: resuming skips no record that was not completed.
FailedLogins ==
  {n \in 1..Len(call.out.first.attempted) :
     call.statuses[call.out.first.attempted[n].row] = "login_failed"}
C35_FailedLoginsAttemptedAgain ==
  Called("resume_after_run") /\ call.out.first.aborted
    => \A n \in FailedLogins :
         \E m \in 1..Len(call.out.queue) :
           call.out.queue[m] = call.out.first.attempted[n]

\* C36: when runs over the same input are repeated with
\* skip_processed_records and resume enabled, and from some point on no
\* context, login or search fails and no process is killed, every record
\* with a non-empty grupo and cota is eventually in the processed store.
Succeeds ==
  /\ pc = "new_context" => pc' = "login"
  /\ pc = "login" => pc' = "search"
  /\ pc = "search" => pc' = "download"
  /\ pc = "close" => pc' = "mark_processed"
  /\ pc \in {"download", "mark_processed", "resume_mark"} => pc' # "idle"
  /\ pc = "breaker" /\ result.status # "login_failed" => pc' # "idle"
  /\ pc = "finish" => files' = ResumeManager_clear(resume_enabled, files)
AllProcessed ==
  \A n \in 1..Len(call.sheet) :
    Truthy(call.sheet[n].grupo) /\ Truthy(call.sheet[n].cota)
      => ProcessedRecordTracker_is_processed(
           ProcessedRecordTracker_load(processed_file),
           call.sheet[n].grupo, call.sheet[n].cota)
C36_EveryRecordEventuallyProcessed ==
  <>[][Succeeds]_vars => <>(call.fn = "repeat" /\ AllProcessed)

\* C37: when every call returns, a run hands the records of its work queue
\* to process_record one at a time, in queue order and each at most once,
\* and it terminates: Completed after the last record of the queue, or
\* Aborted by the consecutive-login-failure checkpoint (a call that raises
\* instead of returning ends the run with that exception).
RunSteps ==
  /\ pc # "idle" /\ pc' # "idle" => records' = records /\ i' \in {i, i + 1}
  /\ pc # "new_context" /\ pc' = "new_context"
       => i' = i + 1 /\ i' \in 1..Len(records') /\ ~context_open'
  /\ pc = "new_context" /\ pc' = "login" => result'.row = records[i].row
  /\ pc' = "finish" => i' = Len(records')
  /\ pc # "idle" /\ pc' = "idle"
       => \/ pc = "finish"
          \/ /\ pc = "breaker"
             /\ result.status = "login_failed"
             /\ consecutive_login_failures + 1 >= Threshold
          \/ pc = "raised"
C37_RunAttemptsQueueOnceAndEnds ==
  /\ [][RunSteps]_vars
  /\ (pc # "idle") ~> (pc = "idle")
C37_Witness == pc = "finish" /\ i = MaxRows /\ result.row = MaxRows

\* C38: when the pending key of the checkpoint is not a record of the work
\* queue, the checkpoint file is deleted and the run starts from the first
\* record of the queue: last_processed is not applied.
InQueue(key) ==
  key # <<>> /\ \E n \in 1..Len(call.out.queue) :
                  KeyOf(call.out.queue[n].grupo, call.out.queue[n].cota)
                    = key[1]
PendingMissing ==
  /\ Called("resume")
  /\ call.pending # <<>>
  /\ ~InQueue(call.pending)
C38_MissingPendingClearsCheckpoint ==
  PendingMissing
    => /\ call.out.files[ResumePath].kind = "absent"
       /\ call.out.records = call.out.queue
C38_Witness ==
  /\ PendingMissing
  /\ Truthy(call.pending[1].cota)
  /\ InQueue(call.last_processed)
  /\ call.out.files[ResumePath].kind = "absent"
  /\ call.out.records = call.out.queue

\* C39: within the processing of a record, upload_pdf, send_notification
\* and the audit-log row are called for a document only when its saved file
\* passed the size validation (it is then in downloaded_files), and each of
\* them at most once for the document.
SinkCalls(k) == call.out.download.calls[k]
C39_SinksOnlyAfterValidationOnce ==
  Downloaded =>
    /\ Len(call.out.download.calls) = call.out.download.attempted
    /\ \A k \in 1..call.out.download.attempted :
         /\ SinkCalls(k).upload_pdf <= 1
         /\ SinkCalls(k).send_notification <= 1
         /\ SinkCalls(k).log_processing_result <= 1
         /\ ( SinkCalls(k).upload_pdf + SinkCalls(k).send_notification
                + SinkCalls(k).log_processing_result > 0
              => Valid(Page[k]) /\ Saved(k) /\ Recorded(k) )
         /\ \A f \in Elems(call.out.download.saved) :
              f.path = PathOf(k) /\ f.size <= MinPdfBytes
                => SinkCalls(k).upload_pdf = 0
C39_Witness ==
  /\ Downloaded
  /\ Len(Page) = MaxLinks
  /\ Valid(Page[1])
  /\ Page[1].sink_failure = "none"
  /\ Recorded(1)
  /\ SinkCalls(1) = [upload_pdf |-> 1, send_notification |-> 1,
                     log_processing_result |-> 1]

====
